---- MODULE Spec2Model ----
(***************************************************************************)
(* A model of the API mapping assistant: the AssistantManager of           *)
(* assistant_manager.py (persistent config file, vector store and          *)
(* assistant reconciliation, threads, runs, uploads, cleanup) and the      *)
(* Streamlit handlers of app.py that drive it.                             *)
(*                                                                         *)
(* The remote service is the environment: every remote call and every      *)
(* local file operation that the code guards with try/except has its       *)
(* outcome chosen nondeterministically.  One action is one handler run.    *)
(*                                                                         *)
(* Line 141 of assistant_manager.py lacks the comma after the model        *)
(* argument; the model follows the call as it is evidently meant.          *)
(***************************************************************************)
EXTENDS Integers, Sequences, FiniteSets, TLC

\* ------------------------------------------------------------------ bounds

\* Remote ids of each kind (vector stores, assistants, threads) handed out.
MaxIds == 2
\* Entries of st.session_state.messages.
MaxMsgs == 4
\* Files offered to one upload.
MaxUpload == 2
\* Remote threads created.
MaxThreads == 2
\* Events one run_thread_events call yields before its terminal event.
MaxEvents == 3
\* Conversations the sidebar creates.
MaxConversations == 3

\* ------------------------------------------------------------------ values

\* Python's None for an id (ids are positive).
None == 0
\* time.time(), abstracted to one instant.
TimeNow == 0
\* Python's None for a response text.
NoText == "None"

Prompts == {"p1", "p2"}
Responses == {"r1", "r2"}
\* Terminal statuses of a run (create_and_poll returns only these).
RunStatuses == {"completed", "failed", "cancelled", "expired", "requires_action"}
\* Names of the files a user may upload.
UploadNames == {"u1.csv", "u2.pdf"}

\* Entries of the knowledge_base folder: an eligible file, a file with another
\* extension, and a dotfile with an eligible extension.
ApiMd == [name |-> "api.md", ext |-> "md", hidden |-> FALSE]
DataCsv == [name |-> "data.csv", ext |-> "csv", hidden |-> FALSE]
DraftTxt == [name |-> ".draft.txt", ext |-> "txt", hidden |-> TRUE]

\* The folders considered.
KBDirs == { {}, {ApiMd}, {DataCsv, DraftTxt}, {ApiMd, DataCsv, DraftTxt} }

\* The extensions the spec calls eligible.
EligibleExts == {"md", "txt", "pdf"}

\* ------------------------------------------------------------------ state

VARIABLES
    fileState,    \* the config file: "absent", "ok" (valid JSON), "corrupt"
    cfg,          \* the JSON object in the file when fileState = "ok"
    vsRemote,     \* ids of the vector stores that exist remotely
    asstRemote,   \* ids of the assistants that exist remotely
    binding,      \* assistant id -> vector store id of its file_search tool
    nextVS,       \* next vector store id the service hands out
    nextAsst,     \* next assistant id
    threads,      \* remote threads: thread id -> sequence of messages
    kbExists,     \* whether the knowledge_base folder exists
    kbDir,        \* its entries
    tmpFiles,     \* names of the files in tempfile.gettempdir()
    session,      \* st.session_state
    last,         \* what the last handler run did and returned
    call,         \* the chat handler's position, its runs issued and outstanding
    stream,       \* the frontend's run_thread_events generator and its remote stream
    ui,           \* the frontend's st.session_state
    lg            \* the graph server: its thread ids and the next one

vars == <<fileState, cfg, vsRemote, asstRemote, binding, nextVS, nextAsst,
          threads, kbExists, kbDir, tmpFiles, session, last, call, stream, ui,
          lg>>

\* The variables of the sidebar frontend (src/frontend).
frontendVars == <<stream, ui, lg>>

\* The variables only the step-wise and the frontend's actions change.
stepVars == <<call, frontendVars>>

\* ------------------------------------------------------------------ dicts

EmptyCfg == [k \in {} |-> None]

Has(c, k) == k \in DOMAIN c

\* config.pop(k, None)
Pop(c, k) == [x \in (DOMAIN c) \ {k} |-> c[x]]

\* config[k] = v
Put(c, k, v) == [x \in (DOMAIN c) \cup {k} |-> IF x = k THEN v ELSE c[x]]

\* ------------------------------------------------------------------ world

\* The part of the state the manager's reconciliation reads and writes,
\* threaded through its calls; writes logs the successful config writes.
World ==
    [ fileState |-> fileState, cfg |-> cfg, vsRemote |-> vsRemote,
      asstRemote |-> asstRemote, binding |-> binding, nextVS |-> nextVS,
      nextAsst |-> nextAsst, writes |-> <<>>, saves |-> <<>> ]

\* The exceptions the file calls raise; all are subclasses of Exception.
ExceptionClasses == {"OSError", "JSONDecodeError"}

\* Whether an except clause catches exc: a bare except and "except Exception"
\* catch every class above, a named class only itself.
Caught(clause, exc) == clause \in {"bare", "Exception"} \/ clause = exc

\* What line 26 can do to an existing file.
OpenOutcomes == {"none", "OSError"}

\* The exception raised inside the try of lines 25-27, if any: open fails, or
\* json.load finds a file that does not parse.
LoadExc(w, open_exc) ==
    IF open_exc # "none" THEN open_exc
    ELSE IF w.fileState = "corrupt" THEN "JSONDecodeError"
    ELSE "none"

\* LoadPersistentConfig whose except names json.JSONDecodeError only.
LoadPersistentConfig_ParseOnly(w, open_exc) ==
    IF w.fileState = "absent" THEN [raised |-> FALSE, value |-> EmptyCfg]
    ELSE LET exc == LoadExc(w, open_exc)
         IN  IF exc = "none" THEN [raised |-> FALSE, value |-> w.cfg]
             ELSE IF Caught("JSONDecodeError", exc)
             THEN [raised |-> FALSE, value |-> EmptyCfg]
             ELSE [raised |-> TRUE, value |-> EmptyCfg]

\* load_persistent_config, lines 21-30, with the outcome of open: what it
\* returns and whether it raises.
LoadPersistentConfig(w, open_exc) ==
    IF w.fileState = "absent" THEN [raised |-> FALSE, value |-> EmptyCfg]
    ELSE LET exc == LoadExc(w, open_exc)
         IN  IF exc = "none" THEN [raised |-> FALSE, value |-> w.cfg]
             ELSE IF Caught("bare", exc)
             THEN [raised |-> FALSE, value |-> EmptyCfg]
             ELSE [raised |-> TRUE, value |-> EmptyCfg]

\* load_persistent_config: {} when the file is missing or does not parse.
Load(w) == IF w.fileState = "ok" THEN w.cfg ELSE EmptyCfg

SaveOutcomes == {"ok", "open_fail", "write_fail"}

\* save_persistent_config, lines 35-41: what it returns and whether it
\* raises, for an outcome of open and json.dump.
SaveReturn(outcome) ==
    LET exc == IF outcome = "ok" THEN "none" ELSE "OSError"
    IN  IF exc = "none" THEN [raised |-> FALSE, result |-> TRUE]
        ELSE IF Caught("Exception", exc) THEN [raised |-> FALSE, result |-> FALSE]
        ELSE [raised |-> TRUE, result |-> FALSE]

\* save_persistent_config: open(path, 'w') then json.dump.  A failing open
\* leaves the file as it was; a failing dump leaves it truncated.  site names
\* the calling line; a successful write is logged with the remote resources
\* that exist at that moment, and every call with what it returned.
Save(w, config, outcome, site) ==
    LET ret == SaveReturn(outcome)
        w1 == [w EXCEPT !.saves = Append(@, [ site |-> site, outcome |-> outcome,
                                              raised |-> ret.raised,
                                              result |-> ret.result ])]
    IN  CASE outcome = "ok" ->
               [w1 EXCEPT !.fileState = "ok", !.cfg = config,
                          !.writes = Append(@, [ site |-> site, rec |-> config,
                                                 vsLive |-> w.vsRemote,
                                                 asstLive |-> w.asstRemote ])]
          [] outcome = "open_fail" -> w1
          [] OTHER -> [w1 EXCEPT !.fileState = "corrupt", !.cfg = EmptyCfg]

\* glob.glob(os.path.join(path, '*.' + ext)): '*' matches no leading dot.
Glob(ext) == {f \in kbDir : f.ext = ext /\ ~f.hidden}

\* get_knowledge_base_files, once the folder is known to exist.
KnowledgeBaseFiles == Glob("md") \cup Glob("txt") \cup Glob("pdf")

\* ------------------------------------------------------------------ reconciler

\* What a manager call hands back: the world after it, whether it raised,
\* and (id, status) when it returned.  creates counts the create calls issued;
\* stale is the persisted id whose retrieve failed, if any; faults names the
\* remote calls that failed though the backend could have served them.
Ret(w, raised, id, status, creates, stale, faults) ==
    [ w |-> w, raised |-> raised, id |-> id, status |-> status,
      creates |-> creates, stale |-> stale, faults |-> faults ]

\* VSCreatePath recording the id before the create call is known to succeed.
VSCreatePath_SaveFirst(w, config, stale, faults, e) ==
    LET id == w.nextVS
        config2 == Put(Put(Put(config, "vector_store_id", id),
                           "created_at", TimeNow),
                       "knowledge_base_files", Cardinality(KnowledgeBaseFiles))
        w1 == Save(w, config2, e.save, "line 89")
    IN  IF ~e.create
        THEN Ret(w1, TRUE, None, "", 1, stale, faults \cup {"vector_stores.create"})
        ELSE Ret([w1 EXCEPT !.vsRemote = @ \cup {id}, !.nextVS = @ + 1],
                 ~kbExists \/ (KnowledgeBaseFiles # {} /\ ~e.upload), id,
                 "created", 1, stale, faults)

\* create_persistent_vector_store, lines 71-91: create, upload the knowledge
\* base, record the id.  vector_stores.create is issued once.
VSCreatePath(w, config, stale, faults, e) ==
    IF ~e.create
    THEN Ret(w, TRUE, None, "", 1, stale, faults \cup {"vector_stores.create"})
    ELSE
      LET id == w.nextVS
          w2 == [w EXCEPT !.vsRemote = @ \cup {id}, !.nextVS = @ + 1]
          kb_files == KnowledgeBaseFiles
      IN  IF ~kbExists THEN Ret(w2, TRUE, None, "", 1, stale, faults)
          ELSE IF kb_files # {} /\ ~e.upload
          THEN Ret(w2, TRUE, None, "", 1, stale, faults \cup {"upload_and_poll"})
          ELSE
            LET config2 == Put(Put(Put(config, "vector_store_id", id),
                                   "created_at", TimeNow),
                               "knowledge_base_files", Cardinality(kb_files))
            IN  Ret(Save(w2, config2, e.save, "line 89"), FALSE, id, "created", 1,
                    stale, faults)

\* create_persistent_vector_store, lines 55-94.
CreatePersistentVectorStore(w, e) ==
    LET config == Load(w)
    IN  IF Has(config, "vector_store_id")
        THEN LET id == config["vector_store_id"]
             IN  IF id \in w.vsRemote /\ e.retrieve
                 THEN Ret(w, FALSE, id, "retrieved", 0, None, {})
                 ELSE LET config1 == Pop(config, "vector_store_id")
                      IN  VSCreatePath(Save(w, config1, e.dropSave, "line 69"), config1, id,
                                       IF id \in w.vsRemote
                                       THEN {"vector_stores.retrieve"} ELSE {},
                                       e)
        ELSE VSCreatePath(w, config, None, {}, e)

\* AsstCreatePath recording the model name as well.
AsstCreatePath_StoresModel(w, config, vector_store_id, stale, faults, e) ==
    IF ~e.create
    THEN Ret(w, TRUE, None, "", 1, stale, faults \cup {"assistants.create"})
    ELSE
      LET id == w.nextAsst
          w2 == [w EXCEPT !.asstRemote = @ \cup {id}, !.nextAsst = @ + 1,
                          !.binding = Put(@, id, vector_store_id)]
          config2 == Put(Put(Put(config, "assistant_id", id),
                             "assistant_created_at", TimeNow),
                         "model", TimeNow)
      IN  Ret(Save(w2, config2, e.save, "line 150"), FALSE, id, "created", 1,
              stale, faults)

\* create_persistent_assistant, lines 138-152: create the assistant bound to
\* vector_store_id, record the id.
AsstCreatePath(w, config, vector_store_id, stale, faults, e) ==
    IF ~e.create
    THEN Ret(w, TRUE, None, "", 1, stale, faults \cup {"assistants.create"})
    ELSE
      LET id == w.nextAsst
          w2 == [w EXCEPT !.asstRemote = @ \cup {id}, !.nextAsst = @ + 1,
                          !.binding = Put(@, id, vector_store_id)]
          config2 == Put(Put(config, "assistant_id", id),
                         "assistant_created_at", TimeNow)
      IN  Ret(Save(w2, config2, e.save, "line 150"), FALSE, id, "created", 1,
              stale, faults)

\* create_persistent_assistant, lines 121-155.
CreatePersistentAssistant(w, vector_store_id, e) ==
    LET config == Load(w)
    IN  IF Has(config, "assistant_id")
        THEN LET id == config["assistant_id"]
             IN  IF id \in w.asstRemote /\ e.retrieve
                 THEN Ret(w, FALSE, id, "retrieved", 0, None, {})
                 ELSE LET config1 == Pop(config, "assistant_id")
                      IN  AsstCreatePath(Save(w, config1, e.dropSave, "line 136"), config1,
                                         vector_store_id, id,
                                         IF id \in w.asstRemote
                                         THEN {"assistants.retrieve"} ELSE {},
                                         e)
        ELSE AsstCreatePath(w, config, vector_store_id, None, {}, e)

\* OverallStatus with the first test's "and" written as "or".
OverallStatus_Or(vs_status, assistant_status) ==
    IF vs_status = "retrieved" \/ assistant_status = "retrieved" THEN "retrieved"
    ELSE IF vs_status = "created" \/ assistant_status = "created" THEN "created"
    ELSE "mixed"

\* initialize_assistant, lines 165-170.
OverallStatus(vs_status, assistant_status) ==
    IF vs_status = "retrieved" /\ assistant_status = "retrieved" THEN "retrieved"
    ELSE IF vs_status = "created" \/ assistant_status = "created" THEN "created"
    ELSE "mixed"

\* The outcomes the environment picks for the vector-store sub-call: of its
\* retrieve (when the id exists), its create, the knowledge-base upload, and
\* its two saves.
VSCallEnvs ==
    [ retrieve : BOOLEAN, create : BOOLEAN, upload : BOOLEAN,
      dropSave : SaveOutcomes, save : SaveOutcomes ]

\* The same for the assistant sub-call.
AsstCallEnvs ==
    [ retrieve : BOOLEAN, create : BOOLEAN,
      dropSave : SaveOutcomes, save : SaveOutcomes ]

\* What the vector-store sub-call can do in world w.
VSOutcomes(w) == {CreatePersistentVectorStore(w, e) : e \in VSCallEnvs}

\* What the assistant sub-call can do after r1; it is not called when the
\* vector-store sub-call raised.
AsstOutcomes(r1) ==
    IF r1.raised THEN {r1}
    ELSE {CreatePersistentAssistant(r1.w, r1.id, e) : e \in AsstCallEnvs}

\* initialize_assistant, lines 157-175, given what its two sub-calls did.
\* Besides the returned triple the record keeps what the sub-calls returned
\* and the config file as it was between them.
InitializeAssistant(r1, r2) ==
    LET none == [ vs |-> None, asst |-> None, status |-> "",
                  vsStatus |-> r1.status, asstStatus |-> "",
                  vsCreates |-> r1.creates, asstCreates |-> 0,
                  staleVS |-> r1.stale, vsReturned |-> ~r1.raised,
                  cfgAfterVS |-> Load(r1.w), faults |-> r1.faults ]
    IN  IF r1.raised THEN [w |-> r1.w, raised |-> TRUE] @@ none
        ELSE IF r2.raised
        THEN [w |-> r2.w, raised |-> TRUE, vs |-> r1.id,
              asstCreates |-> r2.creates,
              faults |-> r1.faults \cup r2.faults] @@ none
        ELSE [ w |-> r2.w, raised |-> FALSE, vs |-> r1.id, asst |-> r2.id,
               status |-> OverallStatus(r1.status, r2.status),
               asstStatus |-> r2.status, asstCreates |-> r2.creates,
               faults |-> r1.faults \cup r2.faults ] @@ none

\* ------------------------------------------------------------------ gateway

\* Cleanup without the os.remove of the config file.
Cleanup_KeepsFile(w, d) ==
    LET config == Load(w)
        vsDel == Has(config, "vector_store_id")
                   /\ config["vector_store_id"] \in w.vsRemote /\ d.delVS
        asstDel == Has(config, "assistant_id")
                     /\ config["assistant_id"] \in w.asstRemote /\ d.delAsst
    IN  [ w |-> [w EXCEPT !.vsRemote = IF vsDel THEN @ \ {config["vector_store_id"]}
                                       ELSE @,
                          !.asstRemote = IF asstDel
                                         THEN @ \ {config["assistant_id"]} ELSE @,
                          !.binding = IF asstDel THEN Pop(@, config["assistant_id"])
                                      ELSE @],
          raised |-> FALSE,
          vs |-> IF Has(config, "vector_store_id")
                 THEN config["vector_store_id"] ELSE None,
          asst |-> IF Has(config, "assistant_id")
                   THEN config["assistant_id"] ELSE None,
          vsDeleted |-> vsDel, asstDeleted |-> asstDel ]

\* cleanup_persistent_resources, lines 249-277.  d picks the outcome of the two
\* delete calls and of os.remove; a failing delete is recorded in the results
\* and swallowed, a failing os.remove raises.
Cleanup(w, d) ==
    LET config == Load(w)
        vsDel == Has(config, "vector_store_id")
                   /\ config["vector_store_id"] \in w.vsRemote /\ d.delVS
        asstDel == Has(config, "assistant_id")
                     /\ config["assistant_id"] \in w.asstRemote /\ d.delAsst
        w1 == IF vsDel THEN [w EXCEPT !.vsRemote = @ \ {config["vector_store_id"]}]
              ELSE w
        w2 == IF asstDel
              THEN [w1 EXCEPT !.asstRemote = @ \ {config["assistant_id"]},
                              !.binding = Pop(@, config["assistant_id"])]
              ELSE w1
        exists == w.fileState # "absent"
    IN  [ w |-> IF exists /\ d.remove
                THEN [w2 EXCEPT !.fileState = "absent", !.cfg = EmptyCfg]
                ELSE w2,
          raised |-> exists /\ ~d.remove,
          vs |-> IF Has(config, "vector_store_id")
                 THEN config["vector_store_id"] ELSE None,
          asst |-> IF Has(config, "assistant_id")
                   THEN config["assistant_id"] ELSE None,
          vsDeleted |-> vsDel, asstDeleted |-> asstDel ]

CleanupEnvs == [delVS : BOOLEAN, delAsst : BOOLEAN, remove : BOOLEAN]

RECURSIVE Reverse(_)
Reverse(s) == IF s = <<>> THEN <<>> ELSE Append(Reverse(Tail(s)), Head(s))

\* MessagesList in ascending order (oldest first).
MessagesList_Asc(thread) == thread

\* client.beta.threads.messages.list(thread_id): newest first.
MessagesList(thread) == Reverse(thread)

\* run_assistant, lines 229-247, on the thread's messages.  r picks what
\* create_and_poll does (a terminal status, or "raise"), the reply a completed
\* run appended to the thread and whether messages.list succeeds.
RunAssistant(thread, r) ==
    IF r.run = "raise"
    THEN [thread |-> thread, raised |-> TRUE, text |-> NoText, status |-> ""]
    ELSE IF r.run = "completed"
    THEN LET t2 == Append(thread, [role |-> "assistant", content |-> r.reply])
         IN  IF ~r.list
             THEN [thread |-> t2, raised |-> TRUE, text |-> NoText, status |-> ""]
             ELSE [thread |-> t2, raised |-> FALSE,
                   text |-> MessagesList(t2)[1].content, status |-> "completed"]
    ELSE [thread |-> thread, raised |-> FALSE, text |-> NoText, status |-> r.run]

RunEnvs == [run : RunStatuses \cup {"raise"}, reply : Responses, list : BOOLEAN]

\* add_user_files_to_vector_store, lines 185-215, on the temp directory.
\* names are the uploaded files' names in order; u picks the index of the file
\* whose write fails (0: none) and whether that file was created before the
\* failure, the outcome of the batch upload and the paths os.remove fails on.
AddUserFiles(tmp, names, u) ==
    LET n == Len(names)
        wrote == IF u.failAt = 0 THEN {names[i] : i \in 1..n}
                 ELSE {names[i] : i \in 1..(u.failAt - 1)}
                        \cup (IF u.partial THEN {names[u.failAt]} ELSE {})
        raised == u.failAt # 0 \/ ~u.upload
    IN  [ tmp |-> IF raised THEN tmp \cup wrote
                  ELSE (tmp \cup wrote) \ (wrote \ u.removeFail),
          raised |-> raised, written |-> wrote ]

UploadSeqs == UNION {[1..n -> UploadNames] : n \in 1..MaxUpload}

UploadEnvs(names) ==
    [ failAt : 0..Len(names), partial : BOOLEAN, upload : BOOLEAN,
      removeFail : SUBSET UploadNames ]

\* ------------------------------------------------------------------ session

\* initialize_session_state's defaults.
SessionDefaults ==
    [ assistant_ready |-> FALSE, vector_store_id |-> None,
      assistant_id |-> None, thread_id |-> None, messages |-> <<>> ]

\* The record of a manager call: the fields a call does not set keep these.
\* prevOp .. prevAsst are op, ok, healthy, vs and asst of the call before it.
NoOp ==
    [ op |-> "none", ok |-> TRUE, healthy |-> TRUE, vs |-> None,
      asst |-> None, status |-> "", vsStatus |-> "", asstStatus |-> "",
      vsCreates |-> 0, asstCreates |-> 0, staleVS |-> None,
      vsReturned |-> FALSE, cfgBefore |-> EmptyCfg, cfgAfterVS |-> EmptyCfg,
      writes |-> <<>>, saves |-> <<>>, loadRaised |-> FALSE,
      loaded |-> EmptyCfg, fileBefore |-> "absent", openExc |-> "none",
      threadOk |-> TRUE, vsDeleted |-> FALSE,
      asstDeleted |-> FALSE, sent |-> FALSE, text |-> NoText,
      runStatus |-> "", written |-> {}, prevOp |-> "none", prevOk |-> TRUE,
      prevHealthy |-> TRUE, prevVS |-> None, prevAsst |-> None ]

Stamp(op) ==
    [ op |-> op, prevOp |-> last.op, prevOk |-> last.ok,
      prevHealthy |-> last.healthy, prevVS |-> last.vs, prevAsst |-> last.asst ]

\* The record kept of a call: the fields in obs, the others at their defaults.
\* A specification observes the fields its properties read.
Observe(rec, obs) ==
    [f \in DOMAIN NoOp |->
       IF f \in obs /\ f \in DOMAIN rec THEN rec[f] ELSE NoOp[f]]

SetWorld(w) ==
    /\ fileState' = w.fileState
    /\ cfg' = w.cfg
    /\ vsRemote' = w.vsRemote
    /\ asstRemote' = w.asstRemote
    /\ binding' = w.binding
    /\ nextVS' = w.nextVS
    /\ nextAsst' = w.nextAsst

worldVars == <<fileState, cfg, vsRemote, asstRemote, binding, nextVS, nextAsst>>

\* SessionAfterInit storing the ids before create_thread has returned.
SessionAfterInit_IdsFirst(s, r, reached, thread_id) ==
    IF r.raised THEN s
    ELSE IF ~reached
    THEN [s EXCEPT !.vector_store_id = r.vs, !.assistant_id = r.asst]
    ELSE [s EXCEPT !.vector_store_id = r.vs, !.assistant_id = r.asst,
                   !.thread_id = thread_id, !.assistant_ready = TRUE]

\* app.py initialize_assistant, lines 100-106 and 110-122: the session after
\* the manager's initialize_assistant (r); reached tells whether create_thread
\* and the lines after it got to the assignments without raising.
SessionAfterInit(s, r, reached, thread_id) ==
    IF r.raised \/ ~reached THEN s
    ELSE [s EXCEPT !.vector_store_id = r.vs, !.assistant_id = r.asst,
                   !.thread_id = thread_id, !.assistant_ready = TRUE]

\* display_system_status, lines 70-88: the session after Reset System.  The
\* deleted keys get their defaults back at the next script run.
SessionAfterReset(s, raised) ==
    IF raised THEN s
    ELSE [s EXCEPT !.assistant_id = None, !.vector_store_id = None,
                   !.assistant_ready = FALSE, !.thread_id = None,
                   !.messages = <<>>]

\* The chat handler between prompts.
Idle == [pc |-> "idle", issued |-> 0, open |-> 0]

\* run_thread_events not called yet.
NoStream == [pc |-> "unstarted", remote |-> "none", events |-> <<>>, path |-> ""]

\* The frontend's session before its first render.
\* pending_interrupt, pending_payload and resume_payload hold {} for None,
\* or the thread and assistant the interrupt was raised on; thread_state
\* holds None for {} or the id of the thread whose state was loaded.
UiDefaults ==
    [ active_assistant |-> None, thread_ids |-> <<>>, threads |-> <<>>,
      selected_thread_id |-> None, thread_state |-> None,
      pending_interrupt |-> {}, pending_payload |-> {},
      is_resuming |-> FALSE, resume_payload |-> {} ]

\* The graph server without threads.
NoThreads == [threads |-> {}, next |-> 1]

\* The frontend at rest.
FrontendRest == stream = NoStream /\ ui = UiDefaults /\ lg = NoThreads

\* ------------------------------------------------------------------ actions

Init ==
    /\ fileState = "absent"
    /\ cfg = EmptyCfg
    /\ vsRemote = {}
    /\ asstRemote = {}
    /\ binding = EmptyCfg
    /\ nextVS = 1
    /\ nextAsst = 1
    /\ threads = <<>>
    /\ kbExists \in BOOLEAN
    /\ kbDir \in KBDirs
    /\ (~kbExists => kbDir = {})
    /\ tmpFiles = {}
    /\ session = SessionDefaults
    /\ last = NoOp
    /\ call = Idle
    /\ FrontendRest

\* main, line 253-254, and app.py initialize_assistant: runs while the session
\* is not ready.  threadOk records that create_thread and the lines after it
\* reached the session assignments.
AppInitialize(obs) ==
    /\ ~session.assistant_ready
    /\ nextVS <= MaxIds
    /\ nextAsst <= MaxIds
    /\ \E r1 \in VSOutcomes(World) :
       \E r2 \in AsstOutcomes(r1) :
       \E r \in {InitializeAssistant(r1, r2)} :
       \E thread_ok \in IF r.raised \/ Len(threads) >= MaxThreads
                        THEN {FALSE} ELSE BOOLEAN :
         LET created == ~r.raised /\ thread_ok
             before == Load(World)
             reusing_resources == /\ Has(before, "vector_store_id")
                                  /\ Has(before, "assistant_id")
             \* lines 114-117: get_knowledge_base_files raises without the folder
             kb_raised == ~reusing_resources /\ r.status = "created" /\ ~kbExists
         IN  /\ SetWorld(r.w)
             /\ threads' = IF created THEN Append(threads, <<>>) ELSE threads
             /\ session' = SessionAfterInit(session, r, thread_ok /\ ~kb_raised,
                                            Len(threads) + 1)
             /\ last' = Observe(Stamp("init")
                        @@ [ ok |-> ~r.raised, healthy |-> r.faults = {},
                             vs |-> r.vs, asst |-> r.asst, status |-> r.status,
                             vsStatus |-> r.vsStatus, asstStatus |-> r.asstStatus,
                             vsCreates |-> r.vsCreates,
                             asstCreates |-> r.asstCreates,
                             staleVS |-> r.staleVS, vsReturned |-> r.vsReturned,
                             cfgBefore |-> Load(World),
                             cfgAfterVS |-> r.cfgAfterVS, writes |-> r.w.writes,
                             saves |-> r.w.saves,
                             threadOk |-> created /\ ~kb_raised ], obs)
    /\ UNCHANGED <<kbExists, kbDir, stepVars, tmpFiles>>

\* display_system_status, lines 70-88: the Reset System button, shown when the
\* loaded config is not empty.
ResetSystem(obs) ==
    /\ Load(World) # EmptyCfg
    /\ \E d \in CleanupEnvs :
         LET r == Cleanup(World, d)
         IN  /\ SetWorld(r.w)
             /\ session' = SessionAfterReset(session, r.raised)
             /\ last' = Observe(Stamp("cleanup")
                        @@ [ ok |-> ~r.raised, vs |-> r.vs, asst |-> r.asst,
                             vsDeleted |-> r.vsDeleted,
                             asstDeleted |-> r.asstDeleted,
                             cfgBefore |-> Load(World) ], obs)
    /\ UNCHANGED <<threads, kbExists, kbDir, stepVars, tmpFiles>>

\* display_system_status, line 43: get_system_status (manager lines 279-290)
\* loads the config at every script run.
GetSystemStatus(obs) ==
    /\ \E open_exc \in OpenOutcomes :
       \E r \in {LoadPersistentConfig(World, open_exc)} :
         last' = Observe(Stamp("status")
                 @@ [ ok |-> ~r.raised, loadRaised |-> r.raised,
                      loaded |-> r.value, fileBefore |-> fileState,
                      openExc |-> open_exc ], obs)
    /\ UNCHANGED <<worldVars, threads, kbExists, kbDir, stepVars, tmpFiles, session>>

\* A new browser session: initialize_session_state, lines 25-38.
NewSession ==
    /\ session # SessionDefaults
    /\ session' = SessionDefaults
    /\ UNCHANGED <<worldVars, threads, kbExists, kbDir, stepVars, tmpFiles, last>>

\* handle_file_upload, lines 145-158: Add Files to Analysis.
AddFiles(obs) ==
    /\ session.assistant_ready
    /\ \E names \in UploadSeqs :
         \E u \in UploadEnvs(names) :
           LET live == session.vector_store_id \in vsRemote
               r == AddUserFiles(tmpFiles, names, [u EXCEPT !.upload = @ /\ live])
           IN  /\ tmpFiles' = r.tmp
               /\ last' = Observe(Stamp("add_files")
                          @@ [ok |-> ~r.raised, written |-> r.written], obs)
    /\ UNCHANGED <<worldVars, threads, kbExists, kbDir, stepVars, session>>

\* ResetConversation clearing the messages before create_thread has returned.
ResetConversation_ClearFirst(obs) ==
    /\ session.assistant_ready
    /\ Len(threads) < MaxThreads
    /\ \E thread_ok \in BOOLEAN :
         /\ threads' = IF thread_ok THEN Append(threads, <<>>) ELSE threads
         /\ session' = IF thread_ok
                       THEN [session EXCEPT !.thread_id = Len(threads) + 1,
                                            !.messages = <<>>]
                       ELSE [session EXCEPT !.messages = <<>>]
         /\ last' = Observe(Stamp("reset_conversation")
                    @@ [ok |-> thread_ok, threadOk |-> thread_ok], obs)
    /\ UNCHANGED <<worldVars, kbExists, kbDir, stepVars, tmpFiles>>

\* handle_file_upload, lines 165-173: Reset Conversation.
ResetConversation(obs) ==
    /\ session.assistant_ready
    /\ Len(threads) < MaxThreads
    /\ \E thread_ok \in BOOLEAN :
         /\ threads' = IF thread_ok THEN Append(threads, <<>>) ELSE threads
         /\ session' = IF thread_ok
                       THEN [session EXCEPT !.thread_id = Len(threads) + 1,
                                            !.messages = <<>>]
                       ELSE session
         /\ last' = Observe(Stamp("reset_conversation")
                    @@ [ok |-> thread_ok, threadOk |-> thread_ok], obs)
    /\ UNCHANGED <<worldVars, kbExists, kbDir, stepVars, tmpFiles>>

\* handle_chat_interaction, lines 212-238: one prompt.  send_message (lines
\* 217-227) appends the user message to the remote thread or raises; a run
\* needs the assistant to exist.
Chat(obs) ==
    /\ session.assistant_ready
    /\ Len(session.messages) + 2 <= MaxMsgs
    /\ \E prompt \in Prompts, send_ok \in BOOLEAN, r0 \in RunEnvs :
         LET user == [role |-> "user", content |-> prompt]
             tid == session.thread_id
             sent == Append(threads[tid], user)
             live == session.assistant_id \in asstRemote
             r == RunAssistant(sent, IF live THEN r0 ELSE [r0 EXCEPT !.run = "raise"])
             answered == send_ok /\ ~r.raised /\ r.status = "completed"
         IN  /\ threads' = IF send_ok THEN [threads EXCEPT ![tid] = r.thread]
                           ELSE threads
             /\ session' =
                  [session EXCEPT !.messages =
                     IF answered
                     THEN Append(Append(@, user),
                                 [role |-> "assistant", content |-> r.text])
                     ELSE Append(@, user)]
             /\ last' = Observe(Stamp("chat")
                        @@ [ ok |-> send_ok /\ ~r.raised, sent |-> send_ok,
                             text |-> IF send_ok THEN r.text ELSE NoText,
                             runStatus |-> IF send_ok THEN r.status ELSE "" ], obs)
    /\ UNCHANGED <<worldVars, kbExists, kbDir, stepVars, tmpFiles>>

\* The remote service drops a vector store out of band (expiry, dashboard):
\* the case the except of lines 66-69 handles.
VectorStoreExpires(obs) ==
    /\ \E id \in vsRemote : vsRemote' = vsRemote \ {id}
    /\ last' = Observe(Stamp("env"), obs)
    /\ UNCHANGED <<fileState, cfg, asstRemote, binding, nextVS, nextAsst,
                   threads, kbExists, kbDir, stepVars, tmpFiles, session>>

\* The same for an assistant: the case the except of lines 132-136 handles.
AssistantDeleted(obs) ==
    /\ \E id \in asstRemote :
         /\ asstRemote' = asstRemote \ {id}
         /\ binding' = Pop(binding, id)
    /\ last' = Observe(Stamp("env"), obs)
    /\ UNCHANGED <<fileState, cfg, vsRemote, nextVS, nextAsst,
                   threads, kbExists, kbDir, stepVars, tmpFiles, session>>

Next(obs) ==
    \/ AppInitialize(obs)
    \/ ResetSystem(obs)
    \/ NewSession
    \/ AddFiles(obs)
    \/ ResetConversation(obs)
    \/ Chat(obs)
    \/ VectorStoreExpires(obs)
    \/ AssistantDeleted(obs)

\* The whole application, observing what each call returned.
ObsReturn == {"op", "ok", "vs", "asst", "status"}

Spec == Init /\ [][Next(ObsReturn)]_vars

\* The reconciler: initialisation, reset, new sessions and the remote's own
\* changes.
NextReconciler(obs) ==
    \/ AppInitialize(obs)
    \/ ResetSystem(obs)
    \/ NewSession
    \/ VectorStoreExpires(obs)
    \/ AssistantDeleted(obs)

\* The manager as the app's two handlers drive it.
NextManager(obs) ==
    \/ AppInitialize(obs)
    \/ ResetSystem(obs)

ObsPrev == {"prevOp", "prevOk", "prevHealthy", "prevVS", "prevAsst"}

\* ------------------------------------------------------------------ C1

ObsIdempotence ==
    ObsReturn \cup ObsPrev \cup {"healthy", "vsCreates", "asstCreates"}

SpecIdempotence == Init /\ [][NextReconciler(ObsIdempotence)]_vars

\* C1: of two successive initialize_assistant calls that both return with a
\* healthy backend (no transient failure of retrieve, create or upload), the
\* second returns the ids the first returned, with status "retrieved", and
\* issues no vector_stores.create and no assistants.create.
C1_Idempotent ==
    ( /\ last.op = "init" /\ last.ok /\ last.healthy
      /\ last.prevOp = "init" /\ last.prevOk /\ last.prevHealthy )
    => /\ last.vs = last.prevVS
       /\ last.asst = last.prevAsst
       /\ last.status = "retrieved"
       /\ last.vsCreates = 0
       /\ last.asstCreates = 0

\* ------------------------------------------------------------------ C2

ObsRecovery == {"op", "vs", "vsStatus", "staleVS", "vsReturned", "cfgAfterVS"}

SpecRecovery == Init /\ [][NextReconciler(ObsRecovery)]_vars

\* C2: when the persisted vector_store_id did not resolve and
\* create_persistent_vector_store returned, it returned a new id with status
\* "created", and the config file then holds the new id, not the stale one.
C2_Recovery ==
    (last.op = "init" /\ last.staleVS # None /\ last.vsReturned)
    => /\ last.vsStatus = "created"
       /\ last.vs # last.staleVS
       /\ Has(last.cfgAfterVS, "vector_store_id")
       /\ last.cfgAfterVS["vector_store_id"] = last.vs

\* ------------------------------------------------------------------ C4

ObsReset == ObsReturn \cup ObsPrev \cup {"vsDeleted", "asstDeleted"}

SpecReset == Init /\ [][NextManager(ObsReset)]_vars

ObsFirstRun == ObsReturn \cup {"healthy", "cfgBefore", "vsCreates", "asstCreates"}

SpecFirstRun == Init /\ [][NextReconciler(ObsFirstRun)]_vars

\* The files of the knowledge-base folder with an eligible extension.
EligibleFiles == {f \in kbDir : f.ext \in EligibleExts}

\* C6: from an empty or absent config, with a healthy backend and the
\* knowledge-base folder present, initialize_assistant returns "created" with
\* two newly created ids, and the config file then holds both ids and
\* knowledge_base_files equal to the number of eligible files.
C6_FirstRun ==
    (last.op = "init" /\ last.cfgBefore = EmptyCfg /\ last.healthy /\ kbExists)
    => /\ last.ok
       /\ last.status = "created"
       /\ last.vsCreates = 1 /\ last.asstCreates = 1
       /\ fileState = "ok"
       /\ Has(cfg, "vector_store_id") /\ cfg["vector_store_id"] = last.vs
       /\ Has(cfg, "assistant_id") /\ cfg["assistant_id"] = last.asst
       /\ Has(cfg, "knowledge_base_files")
       /\ cfg["knowledge_base_files"] = Cardinality(EligibleFiles)

\* ------------------------------------------------------------------ C7

SpecSingleton == Init /\ [][NextReconciler({"op"})]_vars

\* C7: at most one vector store and one assistant exist remotely, and each is
\* the one the config file records.
C7_Singleton ==
    /\ Cardinality(vsRemote) <= 1
    /\ Cardinality(asstRemote) <= 1
    /\ \A id \in vsRemote :
         fileState = "ok" /\ Has(cfg, "vector_store_id")
           /\ cfg["vector_store_id"] = id
    /\ \A id \in asstRemote :
         fileState = "ok" /\ Has(cfg, "assistant_id") /\ cfg["assistant_id"] = id

\* ------------------------------------------------------------------ C8

ObsWrites == {"op", "writes"}

SpecWrites ==
    Init /\ [][NextManager(ObsWrites) \/ VectorStoreExpires(ObsWrites) \/ AssistantDeleted(ObsWrites)]_vars

Writes == {last.writes[i] : i \in DOMAIN last.writes}

\* C8 as claimed: at every successful write of the config file, each id in the
\* written record names a remote resource that exists at that moment.
C8_WrittenIdsLive ==
    \A wr \in Writes :
      /\ Has(wr.rec, "vector_store_id") => wr.rec["vector_store_id"] \in wr.vsLive
      /\ Has(wr.rec, "assistant_id") => wr.rec["assistant_id"] \in wr.asstLive

\* C8 as amended: at every successful write on a creation path, the id that
\* path has just set (vector_store_id at line 89, assistant_id at line 150)
\* names a remote resource that exists at that moment.
C8_CreatedIdsLive ==
    \A wr \in Writes :
      /\ wr.site = "line 89"
         => Has(wr.rec, "vector_store_id")
              /\ wr.rec["vector_store_id"] \in wr.vsLive
      /\ wr.site = "line 150"
         => Has(wr.rec, "assistant_id") /\ wr.rec["assistant_id"] \in wr.asstLive

\* One call that wrote on a drop path and on both creation paths.
C8_Witness ==
    /\ last.op = "init"
    /\ \E wr \in Writes : wr.site = "line 69"
    /\ \E wr \in Writes : wr.site = "line 89"
    /\ \E wr \in Writes : wr.site = "line 150"

\* ------------------------------------------------------------------ C10

ObsStatus == {"op", "ok", "status", "vsStatus", "asstStatus"}

SpecStatus == Init /\ [][NextManager(ObsStatus)]_vars

\* C10: the status initialize_assistant returns is "retrieved" exactly when
\* both sub-calls returned "retrieved", "created" when at least one returned
\* "created", and "mixed" otherwise.
C10_CompositeStatus ==
    (last.op = "init" /\ last.ok)
    => LET both == last.vsStatus = "retrieved" /\ last.asstStatus = "retrieved"
           either == last.vsStatus = "created" \/ last.asstStatus = "created"
       IN  /\ (last.status = "retrieved") <=> both
           /\ either => last.status = "created"
           /\ (~both /\ ~either) => last.status = "mixed"

\* A call whose vector store was retrieved and whose assistant was created.
C10_Witness ==
    /\ last.op = "init" /\ last.ok
    /\ last.vsStatus = "retrieved" /\ last.asstStatus = "created"
    /\ last.status = "created"


\* ------------------------------------------------------------------ C3

SpecUpload ==
    Init /\ [][AppInitialize({"op"}) \/ AddFiles({"op", "ok", "written"})]_vars

\* C3: after add_user_files_to_vector_store returns or raises, none of the
\* scratch files it wrote is left in the temp directory.
C3_UploadCleanup ==
    last.op = "add_files" => last.written \cap tmpFiles = {}

\* ------------------------------------------------------------------ C5

\* The state after a first initialisation in which every call succeeded, with
\* one eligible knowledge-base file; no gateway call made yet.
InitReadyWorld ==
    /\ fileState = "ok"
    /\ cfg = [ vector_store_id |-> 1, created_at |-> TimeNow,
               knowledge_base_files |-> 1, assistant_id |-> 1,
               assistant_created_at |-> TimeNow ]
    /\ vsRemote = {1}
    /\ asstRemote = {1}
    /\ binding = Put(EmptyCfg, 1, 1)
    /\ nextVS = 2
    /\ nextAsst = 2
    /\ threads = << <<>> >>
    /\ kbExists = TRUE
    /\ kbDir = {ApiMd}
    /\ tmpFiles = {}
    /\ session = [ assistant_ready |-> TRUE, vector_store_id |-> 1,
                   assistant_id |-> 1, thread_id |-> 1, messages |-> <<>> ]

InitReady == InitReadyWorld /\ last = NoOp /\ call = Idle /\ FrontendRest

ObsRun == {"op", "ok", "sent", "text", "runStatus"}

\* The conversation of a ready session, with the assistant possibly deleted
\* under it.
SpecChat == InitReady /\ [][Chat(ObsRun) \/ AssistantDeleted(ObsRun)]_vars

\* The messages of the session's thread.
SessionThread == threads[session.thread_id]

\* C5: when run_assistant returns, the status it returns is the run's terminal
\* status; with "completed" the text is that of the thread's most recent
\* message, with any other status the text is None.
C5_RunStatusMapping ==
    (last.op = "chat" /\ last.sent /\ last.ok)
    => /\ last.runStatus \in RunStatuses
       /\ last.runStatus = "completed"
            => /\ SessionThread # <<>>
               /\ last.text = SessionThread[Len(SessionThread)].content
       /\ last.runStatus # "completed" => last.text = NoText

\* A failed run on a thread that already holds a completed exchange.
C5_Witness ==
    /\ last.op = "chat" /\ last.sent /\ last.ok
    /\ last.runStatus = "failed" /\ last.text = NoText
    /\ Len(SessionThread) >= 3

\* ------------------------------------------------------------------ C9

ObsInit == {"op", "ok", "threadOk"}

SpecSession == Init /\ [][NextManager(ObsInit) \/ NewSession]_vars

\* C9: after an initialisation in which initialize_assistant or create_thread
\* raised, the session is not ready and holds no vector_store_id,
\* assistant_id or thread_id; and a session that is not ready holds none of
\* them and no message, and the chat handler does nothing in it.
C9_InitFailureHalts ==
    /\ (last.op = "init" /\ (~last.ok \/ ~last.threadOk))
       => ~session.assistant_ready
    /\ ~session.assistant_ready
       => /\ session.vector_store_id = None
          /\ session.assistant_id = None
          /\ session.thread_id = None
          /\ session.messages = <<>>
          /\ ~ENABLED Chat(ObsInit)

\* initialize_assistant returned both ids and create_thread then raised.
C9_Witness ==
    /\ last.op = "init" /\ last.ok /\ ~last.threadOk
    /\ vsRemote # {} /\ asstRemote # {}
    /\ ~session.assistant_ready

\* ------------------------------------------------------------------ C11

ObsStore == {"op", "saves", "loadRaised", "loaded", "fileBefore", "openExc"}

\* The script's first steps, until a session is ready.
SpecStore ==
    Init /\ [][AppInitialize(ObsStore) \/ GetSystemStatus(ObsStore)]_vars

Saves == {last.saves[i] : i \in DOMAIN last.saves}

\* What a sub-call hands its caller.
Returned(r) == <<r.raised, r.id, r.status>>

\* C11: load_persistent_config never raises and returns {} when the file is
\* missing, cannot be opened or does not parse; save_persistent_config never
\* raises and returns True exactly when the write succeeded; and whatever a
\* save does, the sub-call around it returns or raises the same.
C11_StoreFailsSoft ==
    /\ last.op = "status"
       => /\ ~last.loadRaised
          /\ (last.fileBefore # "ok" \/ last.openExc # "none")
               => last.loaded = EmptyCfg
    /\ \A s \in Saves : ~s.raised /\ (s.result <=> s.outcome = "ok")
    /\ \A e \in VSCallEnvs, s1 \in SaveOutcomes, s2 \in SaveOutcomes :
         (e.save = "ok" /\ e.dropSave = "ok")
         => Returned(CreatePersistentVectorStore(
                       World, [e EXCEPT !.save = s1, !.dropSave = s2]))
              = Returned(CreatePersistentVectorStore(World, e))
    /\ \A e \in AsstCallEnvs, s1 \in SaveOutcomes, s2 \in SaveOutcomes :
         (e.save = "ok" /\ e.dropSave = "ok")
         => \A id \in vsRemote :
              Returned(CreatePersistentAssistant(
                         World, id, [e EXCEPT !.save = s1, !.dropSave = s2]))
                = Returned(CreatePersistentAssistant(World, id, e))

\* A load of the file a failed json.dump left truncated.
C11_Witness ==
    /\ last.op = "status" /\ last.fileBefore = "corrupt"
    /\ last.loaded = EmptyCfg /\ ~last.loadRaised
    /\ vsRemote # {}

\* ------------------------------------------------------------------ C12

ObsConversation == {"op", "ok"}

\* A prompt that got its answer: lines 227-231.
ChatAnswered(obs) ==
    Chat(obs) /\ Len(session'.messages) = Len(session.messages) + 2

\* A ready session resetting its conversation between answered prompts.
SpecConversation ==
    InitReady
      /\ [][ResetConversation(ObsConversation) \/ ChatAnswered(ObsConversation)]_vars

\* C12: a Reset Conversation step whose create_thread returned sets the
\* session's thread_id to a thread that did not exist before, different from
\* the previous thread_id; one whose create_thread raised leaves thread_id and
\* messages as they were; either way the session's vector_store_id and
\* assistant_id, the config file and the remote vector stores and assistants
\* are unchanged.
C12_ResetOnlyThread ==
    [][ last'.op = "reset_conversation"
        => /\ IF last'.ok
              THEN /\ session'.thread_id # session.thread_id
                   /\ session'.thread_id \notin DOMAIN threads
                   /\ session'.thread_id \in DOMAIN threads'
                   /\ \A t \in DOMAIN threads : threads'[t] = threads[t]
              ELSE /\ session'.thread_id = session.thread_id
                   /\ session'.messages = session.messages
                   /\ threads' = threads
           /\ session'.vector_store_id = session.vector_store_id
           /\ session'.assistant_id = session.assistant_id
           /\ UNCHANGED worldVars ]_vars

\* A conversation with an answered prompt was reset.
C12_Witness ==
    /\ last.op = "reset_conversation" /\ last.ok
    /\ session.thread_id = 2 /\ session.messages = <<>>
    /\ Len(threads[1]) >= 2
    /\ session.vector_store_id = 1 /\ session.assistant_id = 1

\* ------------------------------------------------------------------ C13

\* handle_chat_interaction step by step.  Lines 212-220: the prompt is shown
\* and sent; a send_message that raises ends the handler (line 236).
PromptSubmit ==
    /\ session.assistant_ready
    /\ call.pc = "idle"
    /\ Len(session.messages) + 2 <= MaxMsgs
    /\ \E prompt \in Prompts, send_ok \in BOOLEAN :
         LET user == [role |-> "user", content |-> prompt]
             tid == session.thread_id
         IN  /\ session' = [session EXCEPT !.messages = Append(@, user)]
             /\ threads' = IF send_ok
                           THEN [threads EXCEPT ![tid] = Append(@, user)]
                           ELSE threads
             /\ call' = [ pc |-> IF send_ok THEN "sent" ELSE "idle",
                          issued |-> 0, open |-> call.open ]
    /\ UNCHANGED <<worldVars, kbExists, kbDir, tmpFiles, last, frontendVars>>

\* run_assistant, line 232: create_and_poll creates the run, or raises.
RunCreate ==
    /\ call.pc = "sent"
    /\ \E create_ok \in BOOLEAN :
         call' = IF create_ok /\ session.assistant_id \in asstRemote
                 THEN [ pc |-> "polling", issued |-> call.issued + 1,
                        open |-> call.open + 1 ]
                 ELSE [call EXCEPT !.pc = "idle"]
    /\ UNCHANGED <<worldVars, threads, kbExists, kbDir, tmpFiles, session, last,
                   frontendVars>>

\* RunPoll issuing the run again when it ended "failed".
RunPoll_Retry ==
    /\ call.pc = "polling"
    /\ \E r0 \in RunEnvs :
       \E r \in {RunAssistant(threads[session.thread_id], r0)} :
         /\ threads' = [threads EXCEPT ![session.thread_id] = r.thread]
         /\ session' =
              IF ~r.raised /\ r.status = "completed"
              THEN [session EXCEPT !.messages =
                      Append(@, [role |-> "assistant", content |-> r.text])]
              ELSE session
         /\ call' = [call EXCEPT
                       !.pc = IF ~r.raised /\ r.status = "failed"
                              THEN "sent" ELSE "idle",
                       !.open = @ - 1]
    /\ UNCHANGED <<worldVars, kbExists, kbDir, tmpFiles, last, frontendVars>>

\* run_assistant, lines 232-247, and the handler's lines 227-238: the blocking
\* create_and_poll returns the run's terminal status or raises; only a
\* completed run is read back and shown.  The handler ends either way; a
\* poll that raises is taken to have ended the run.
RunPoll ==
    /\ call.pc = "polling"
    /\ \E r0 \in RunEnvs :
       \E r \in {RunAssistant(threads[session.thread_id], r0)} :
         /\ threads' = [threads EXCEPT ![session.thread_id] = r.thread]
         /\ session' =
              IF ~r.raised /\ r.status = "completed"
              THEN [session EXCEPT !.messages =
                      Append(@, [role |-> "assistant", content |-> r.text])]
              ELSE session
         /\ call' = [call EXCEPT !.pc = "idle", !.open = @ - 1]
    /\ UNCHANGED <<worldVars, kbExists, kbDir, tmpFiles, last, frontendVars>>

\* The prompts of a ready session, step by step.
SpecRuns == InitReady /\ [][PromptSubmit \/ RunCreate \/ RunPoll]_vars

SpecKeys == {"vector_store_id", "assistant_id", "created_at", "knowledge_base_files"}

\* C14 as claimed: every record written to the config file has only keys
\* from vector_store_id, assistant_id, created_at, knowledge_base_files.
C14_KeySet == \A wr \in Writes : DOMAIN wr.rec \subseteq SpecKeys

\* C14 as amended: every record written has only those keys and
\* assistant_created_at, which the write of line 150 always sets.
C14_KeySetWithAssistantTime ==
    \A wr \in Writes :
      /\ DOMAIN wr.rec \subseteq SpecKeys \cup {"assistant_created_at"}
      /\ wr.site = "line 150" => Has(wr.rec, "assistant_created_at")

\* A drop write that kept the keys of a record with both ids.
C14_Witness ==
    \E wr \in Writes :
      /\ wr.site = "line 69"
      /\ DOMAIN wr.rec = (SpecKeys \cup {"assistant_created_at"}) \ {"vector_store_id"}

\* ------------------------------------------------------------------ C15

\* The messages of a node payload: dicts of type "ai" or "human", or
\* something that is not a dict.
Msgs ==
    { [isdict |-> TRUE, type |-> "ai", content |-> "c1"],
      [isdict |-> TRUE, type |-> "ai", content |-> "c2"],
      [isdict |-> TRUE, type |-> "human", content |-> "c1"],
      [isdict |-> FALSE, type |-> "", content |-> ""] }

MsgSeqs == {<<>>} \cup {<<a>> : a \in Msgs} \cup {<<a, b>> : a \in Msgs, b \in Msgs}

\* The chunks client.runs.stream delivers: its event, and its data as None
\* ("null"), a list, a dict with "__interrupt__" (a non-empty list, an empty
\* list or another value) or a dict of at most one node, whose payload is a
\* dict holding messages or not a dict.
NoChunk ==
    [ event |-> "updates", kind |-> "null", items |-> "", isdict |-> FALSE,
      messages |-> <<>> ]

Chunks ==
    { [NoChunk EXCEPT !.event = ev] : ev \in {"updates", "metadata"} }
    \cup { [NoChunk EXCEPT !.kind = "list"] }
    \cup { [NoChunk EXCEPT !.kind = "interrupt", !.items = i] :
             i \in {"list", "empty", "scalar"} }
    \cup { [NoChunk EXCEPT !.kind = "node"] }
    \cup { [NoChunk EXCEPT !.kind = "node", !.isdict = TRUE, !.messages = ms] :
             ms \in MsgSeqs }

Event(kind, payload) == [kind |-> kind, payload |-> payload]

\* Lines 180-183 over the messages of one node: the events yielded, and
\* whether m.get raised on a message that is not a dict.
RECURSIVE MessageEvents(_)
MessageEvents(ms) ==
    IF ms = <<>> THEN [events |-> <<>>, raised |-> FALSE]
    ELSE IF ~Head(ms).isdict THEN [events |-> <<>>, raised |-> TRUE]
    ELSE LET rest == MessageEvents(Tail(ms))
             here == IF Head(ms).type = "ai"
                     THEN <<Event("ai_chunk", Head(ms).content)>> ELSE <<>>
         IN  [events |-> here \o rest.events, raised |-> rest.raised]

\* The loop body, lines 161-183, for one chunk.
ChunkEvents(chunk) ==
    IF chunk.event # "updates"
    THEN [events |-> <<Event("other", "event")>>, raised |-> FALSE]
    ELSE CASE chunk.kind = "null" -> [events |-> <<>>, raised |-> FALSE]
           [] chunk.kind = "list" -> [events |-> <<>>, raised |-> TRUE]
           [] chunk.kind = "interrupt" ->
                [ events |-> <<Event("interrupt",
                                     IF chunk.items = "list" THEN "items[0]"
                                     ELSE "items")>>,
                  raised |-> FALSE ]
           [] OTHER -> IF chunk.isdict THEN MessageEvents(chunk.messages)
                       ELSE [events |-> <<>>, raised |-> FALSE]

\* OnException yielding the terminal marker after the error as well.
OnException_ThenDone(events) ==
    events \o <<Event("other", "error"), Event("done", "none")>>

\* Lines 186-189: the except clause.
OnException(events) == Append(events, Event("other", "error"))

\* Line 185: the stream is exhausted.
OnStreamEnd(events) == Append(events, Event("done", "none"))

\* run_thread_events is called and iterated, lines 150-160, on the resume path
\* or the first-call path.
StartStream ==
    /\ stream.pc \in {"unstarted", "finished"}
    /\ \E resume \in BOOLEAN :
         stream' = [ pc |-> "iterating", remote |-> "open", events |-> <<>>,
                     path |-> IF resume THEN "command" ELSE "input" ]
    /\ UNCHANGED <<worldVars, threads, kbExists, kbDir, tmpFiles, session, last,
                   call, ui, lg>>

\* The remote stream delivers a chunk; a chunk the loop body raises on ends
\* the generator in its except clause.
StreamChunk ==
    /\ stream.pc = "iterating"
    /\ \E chunk \in Chunks :
       \E r \in {ChunkEvents(chunk)} :
         /\ Len(stream.events) + Len(r.events) <= MaxEvents
         /\ stream' = IF r.raised
                      THEN [stream EXCEPT !.pc = "finished",
                                          !.events = OnException(@ \o r.events)]
                      ELSE [stream EXCEPT !.events = @ \o r.events]
    /\ UNCHANGED <<worldVars, threads, kbExists, kbDir, tmpFiles, session, last,
                   call, ui, lg>>

\* The remote stream ends.
StreamEnds ==
    /\ stream.pc = "iterating"
    /\ stream' = [stream EXCEPT !.pc = "finished", !.remote = "ended",
                                !.events = OnStreamEnd(@)]
    /\ UNCHANGED <<worldVars, threads, kbExists, kbDir, tmpFiles, session, last,
                   call, ui, lg>>

\* The remote stream raises, at the call of line 160 or at a later chunk.
StreamRaises ==
    /\ stream.pc = "iterating"
    /\ stream' = [stream EXCEPT !.pc = "finished", !.remote = "raised",
                                !.events = OnException(@)]
    /\ UNCHANGED <<worldVars, threads, kbExists, kbDir, tmpFiles, session, last,
                   call, ui, lg>>

\* The frontend reads neither the config file nor the knowledge-base folder:
\* it starts with the folder empty.
InitFrontend == Init /\ kbExists /\ kbDir = {}

SpecStream ==
    InitFrontend /\ [][StartStream \/ StreamChunk \/ StreamEnds \/ StreamRaises]_vars

\* The positions of the "done" events yielded so far.
DoneAt == {i \in DOMAIN stream.events : stream.events[i].kind = "done"}

\* C15: when the remote stream has ended without raising, ("done", None) was
\* yielded exactly once, as the last event; when it has raised, the last
\* event is ("other", {error}) and no "done" was yielded; nothing is ever
\* yielded after "done".
C15_DoneIsLast ==
    /\ stream.remote = "ended"
       => stream.pc = "finished" /\ DoneAt = {Len(stream.events)}
    /\ stream.remote = "raised"
       => /\ stream.pc = "finished"
          /\ DoneAt = {}
          /\ stream.events[Len(stream.events)] = Event("other", "error")
    /\ \A i \in DoneAt : i = Len(stream.events)

\* A stream that raised after an interrupt and an AI chunk were yielded.
C15_Witness ==
    /\ stream.remote = "raised"
    /\ Len(stream.events) = 3
    /\ stream.events[1].kind = "interrupt"
    /\ stream.events[2].kind = "ai_chunk"

\* ------------------------------------------------------------------ C16

SpecBinding == Init /\ [][NextReconciler(ObsReturn)]_vars

\* C16: when initialize_assistant returns (vector_store_id, assistant_id,
\* status), the returned assistant's file_search tool is bound to the
\* returned vector store.
C16_BindingConsistent ==
    (last.op = "init" /\ last.ok)
    => Has(binding, last.asst) /\ binding[last.asst] = last.vs

\* ------------------------------------------------------------------ sidebar

\* The assistants of the select box, by their position among the sorted names.
Assistants == 1..2

\* Lines 27-30, 103-106 and 125-128.
ClearPending(u) ==
    [u EXCEPT !.pending_interrupt = {}, !.pending_payload = {},
              !.is_resuming = FALSE, !.resume_payload = {}]

\* render_sidebar, lines 15-30, with the select box at assistant.
AssistantSelected(u, assistant) ==
    LET previous_assistant == u.active_assistant
        assistant_changed == previous_assistant # None
                               /\ previous_assistant # assistant
        u1 == [u EXCEPT !.active_assistant = assistant]
    IN  IF assistant_changed
        THEN ClearPending([u1 EXCEPT !.thread_state = None,
                                     !.selected_thread_id = None])
        ELSE u1

Ids(seq) == {seq[i] : i \in DOMAIN seq}

\* render_sidebar, lines 38-49: a selection that is not listed becomes the
\* first thread.
EnsureSelection(u) ==
    IF u.thread_ids # <<>> /\ u.selected_thread_id \notin Ids(u.thread_ids)
    THEN [u EXCEPT !.selected_thread_id = u.thread_ids[1]]
    ELSE u

\* _create_new_thread, lines 98-106, once create_thread returned thread.
AfterCreate(u, thread) ==
    ClearPending([u EXCEPT !.threads = <<thread>> \o @,
                           !.thread_ids = <<thread.thread_id>> \o @,
                           !.selected_thread_id = thread.thread_id])

\* list.remove: the first occurrence.
RECURSIVE Remove(_, _)
Remove(seq, x) ==
    IF seq = <<>> THEN <<>>
    ELSE IF Head(seq) = x THEN Tail(seq)
    ELSE <<Head(seq)>> \o Remove(Tail(seq), x)

\* The list comprehension of lines 121-122.
RECURSIVE Without(_, _)
Without(ts, thread_id) ==
    IF ts = <<>> THEN <<>>
    ELSE IF Head(ts).thread_id = thread_id THEN Without(Tail(ts), thread_id)
    ELSE <<Head(ts)>> \o Without(Tail(ts), thread_id)

\* AfterDelete without the re-selection of lines 130-134.
AfterDelete_KeepsSelection(u, thread_id) ==
    ClearPending([u EXCEPT !.thread_ids = Remove(@, thread_id),
                           !.threads = Without(@, thread_id),
                           !.thread_state = None])

\* _delete_thread_and_update_state, lines 119-134, once delete_thread
\* returned.
AfterDelete(u, thread_id) ==
    LET ids == IF thread_id \in Ids(u.thread_ids)
               THEN Remove(u.thread_ids, thread_id) ELSE u.thread_ids
        u1 == ClearPending([u EXCEPT !.thread_ids = ids,
                                     !.threads = Without(@, thread_id),
                                     !.thread_state = None])
    IN  [u1 EXCEPT !.selected_thread_id = IF ids # <<>> THEN ids[1] ELSE None]

\* A script run in which the select box shows another assistant than the
\* active one (the first render included).
SelectAssistant(obs) ==
    /\ \E assistant \in Assistants \ {ui.active_assistant} :
         ui' = EnsureSelection(AssistantSelected(ui, assistant))
    /\ last' = Observe(Stamp("switch")
               @@ [ok |-> TRUE, threadOk |-> ui.active_assistant # None], obs)
    /\ UNCHANGED <<worldVars, threads, kbExists, kbDir, tmpFiles, session, call,
                   stream, lg>>

\* A script run with Create New Conversation clicked, lines 35-36 and 94-112:
\* create_thread (api.py lines 70-76) or get_thread_state may raise.
CreateConversation(obs) ==
    /\ ui.active_assistant # None
    /\ lg.next <= MaxConversations
    /\ \E create_ok \in BOOLEAN, state_ok \in BOOLEAN :
         LET thread == [ thread_id |-> lg.next,
                         assistant_name |-> ui.active_assistant ]
             u1 == AfterCreate(ui, thread)
         IN  /\ lg' = IF create_ok
                      THEN [threads |-> lg.threads \cup {lg.next},
                            next |-> lg.next + 1]
                      ELSE lg
             /\ ui' = IF ~create_ok THEN ui
                      ELSE IF ~state_ok THEN u1
                      ELSE EnsureSelection([u1 EXCEPT !.thread_state = lg.next])
             /\ last' = Observe(Stamp("create")
                        @@ [ ok |-> create_ok /\ state_ok,
                             threadOk |-> create_ok ], obs)
    /\ UNCHANGED <<worldVars, threads, kbExists, kbDir, tmpFiles, session, call,
                   stream>>

\* A script run after another conversation was picked in the radio of lines
\* 51-57: the widget sets selected_thread_id and _on_select_thread loads the
\* thread's state, or raises.
SelectThread(obs) ==
    /\ \E t \in Ids(ui.thread_ids) \ {ui.selected_thread_id}, state_ok \in BOOLEAN :
         ui' = [ui EXCEPT !.selected_thread_id = t,
                          !.thread_state = IF state_ok THEN t ELSE @]
    /\ last' = Observe(Stamp("select") @@ [ok |-> TRUE], obs)
    /\ UNCHANGED <<worldVars, threads, kbExists, kbDir, tmpFiles, session, call,
                   stream, lg>>

\* A script run with Delete Conversation clicked, lines 59-62 and 117-134:
\* delete_thread (api.py lines 88-90) may raise.
DeleteConversation(obs) ==
    /\ EnsureSelection(ui).selected_thread_id # None
    /\ \E delete_ok \in BOOLEAN :
         LET u0 == EnsureSelection(ui)
             thread_id == u0.selected_thread_id
         IN
         /\ lg' = IF delete_ok
                  THEN [lg EXCEPT !.threads = @ \ {thread_id}]
                  ELSE lg
         /\ ui' = IF delete_ok THEN AfterDelete(u0, thread_id) ELSE u0
         /\ last' = Observe(Stamp("delete")
                    @@ [ok |-> delete_ok, threadOk |-> delete_ok], obs)
    /\ UNCHANGED <<worldVars, threads, kbExists, kbDir, tmpFiles, session, call,
                   stream>>

ObsSidebar == {"op", "ok", "threadOk", "prevOp"}

NextSidebar(obs) ==
    \/ SelectAssistant(obs)
    \/ CreateConversation(obs)
    \/ SelectThread(obs)
    \/ DeleteConversation(obs)

SpecSidebar == InitFrontend /\ [][NextSidebar(ObsSidebar)]_vars

Context(u) == [thread |-> u.selected_thread_id, assistant |-> u.active_assistant]

\* The event stream of the selected conversation yields an interrupt (api.py
\* lines 167-173) and the page keeps it, with its payload, as pending.
InterruptReceived(obs) ==
    /\ ui.selected_thread_id # None
    /\ ui.active_assistant # None
    /\ ui.pending_interrupt = {}
    /\ ui' = [ui EXCEPT !.pending_interrupt = {Context(ui)},
                        !.pending_payload = {Context(ui)}]
    /\ last' = Observe(Stamp("interrupt") @@ [ok |-> TRUE], obs)
    /\ UNCHANGED <<worldVars, threads, kbExists, kbDir, tmpFiles, session, call,
                   stream, lg>>

\* The user answers the pending interrupt: the answer becomes resume_payload,
\* which the next run_thread_events call sends as Command(resume=...) on the
\* selected thread (api.py lines 150-157).
ResumeSubmitted(obs) ==
    /\ ui.pending_interrupt # {}
    /\ ~ui.is_resuming
    /\ ui' = [ui EXCEPT !.is_resuming = TRUE,
                        !.resume_payload = ui.pending_payload]
    /\ last' = Observe(Stamp("resume") @@ [ok |-> TRUE], obs)
    /\ UNCHANGED <<worldVars, threads, kbExists, kbDir, tmpFiles, session, call,
                   stream, lg>>

ObsPending == {"op", "threadOk"}

SpecPending ==
    InitFrontend
      /\ [][NextSidebar(ObsPending) \/ InterruptReceived(ObsPending)
              \/ ResumeSubmitted(ObsPending)]_vars

NothingPending ==
    /\ ui.pending_interrupt = {}
    /\ ui.pending_payload = {}
    /\ ui.resume_payload = {}
    /\ ~ui.is_resuming

\* After a switch to a different assistant, a creation or a deletion of a
\* conversation, nothing is pending.
ClearedByOperation ==
    last.op \in {"switch", "create", "delete"} /\ last.threadOk
      => NothingPending

\* What is pending or being resumed belongs to the selected thread and the
\* active assistant.
PendingIsCurrent ==
    \A c \in ui.pending_interrupt \cup ui.pending_payload \cup ui.resume_payload :
       c = Context(ui)

ObsTranscript == {"op", "runStatus"}

SpecTranscript ==
    InitReady /\ [][Chat(ObsTranscript) \/ ResetConversation(ObsTranscript)]_vars

\* The contents of the entries of one role, in order.
RECURSIVE OfRole(_, _)
OfRole(messages, role) ==
    IF messages = <<>> THEN <<>>
    ELSE IF Head(messages).role = role
         THEN <<Head(messages).content>> \o OfRole(Tail(messages), role)
         ELSE OfRole(Tail(messages), role)

\* C19: after any sequence of prompts with arbitrary send and run outcomes,
\* the session's messages hold an assistant entry only for a run that ended
\* 'completed', every assistant entry directly follows a user entry, and the
\* user entries of the session are the user messages appended to the remote
\* thread since the last conversation reset.
C19_TranscriptConsistent ==
    /\ last.op = "chat" /\ session.messages # <<>>
         /\ session.messages[Len(session.messages)].role = "assistant"
         => last.runStatus = "completed"
    /\ \A i \in DOMAIN session.messages :
         session.messages[i].role = "assistant"
           => i > 1 /\ session.messages[i - 1].role = "user"
    /\ OfRole(session.messages, "user")
         = OfRole(threads[session.thread_id], "user")

====
